---- MODULE Spec2Model ----
(***************************************************************************)
(* Job orchestration of the MorphoVolc backend (server.js, the updated     *)
(* listing of examples/README.md, lines 18-291): the job registry          *)
(* processingStatus, the /process, /processStatus and /processComplete     *)
(* handlers, the events of the pipeline children, /calculateVolume with    *)
(* its parse-then-fallback reading of the child's stdout, and the three    *)
(* derivative endpoints.                                                   *)
(*                                                                         *)
(* Node runs one handler or one event callback at a time, to completion:   *)
(* each action below is one such run.  The older listing of server.js      *)
(* (lines 293-552 of the same file) is superseded by the updated one; the  *)
(* places where it differs are kept as the *Older definitions.             *)
(***************************************************************************)
EXTENDS Integers, Sequences, FiniteSets, TLC

\* Number of ids uuidv4() can hand out in one run of the model.
MaxJobs == 2

UuidPool == <<"uuid-1", "uuid-2", "uuid-3", "uuid-4">>
UUIDs == {UuidPool[i] : i \in 1..MaxJobs}

\* Route parameters a client can put in /processStatus/:processId and
\* /processComplete/:processId: the ids of jobs, two names every object
\* inherits from Object.prototype, the name of the property the handlers
\* write, and a plain unknown id.
InheritedKeys == {"constructor", "__proto__"}
Keys == UUIDs \cup InheritedKeys \cup {"status", "nope"}

\* HTTP status codes of the responses.
Ok == 200
BadRequest == 400
NotFound == 404
ServerError == 500

\* What the child can exit with.
ExitCodes == {0, 1, 2}

NoFile == "<no file>"
Uploads == {NoFile, "a.tif"}
\* The uploads of the runs that follow where the files are stored:
\* file.originalname, for two clients that pick their names freely.
UploadNames == {NoFile, "a.tif", "b.tif", "empty.tif"}

\* file.size as multer reports it: a part that has a file name and no
\* content is stored as a file of zero bytes, and req.file is set.
Size(file) == IF file = NoFile \/ file = "empty.tif" THEN 0 ELSE 1

VARIABLES
    processingStatus, \* own properties of the registry object: id -> [status]
    objectStatus,     \* built-in objects that carry an own 'status' property
    children,         \* pipeline children of /process: id -> "running" | "closed"
    volume,           \* the request in flight that waits for its child, or Idle
    issued,           \* history: the processIds /process has returned
    acked,            \* history: the ids whose completion callback was answered 200
    last,             \* history: the last handler or callback run and its response
    inputs,           \* the input path each pipeline child was launched on: id -> path
    server,           \* the Node process: "listening", or "exited"
    drawn,            \* history: the ids uuidv4() has handed out
    client            \* the state of the upload form in the browser

\* The state of the server.
serverVars == <<processingStatus, objectStatus, children, volume, issued, acked, last,
                inputs, server, drawn>>

vars == <<serverVars, client>>

----------------------------------------------------------------------------
(* The record of a handler run.  code = 0: no response was sent.            *)

Absent == "<absent>"

\* A multipart text field: absent, or present with its characters.
NoField == [present |-> FALSE, text |-> <<>>]
Field(chars) == [present |-> TRUE, text |-> chars]

\* The fields of a /calculateVolume request: req.file and req.body.
VolumeRequest(file, volumeType, approximationType, nameField, idField) ==
    [file |-> file, volumeType |-> volumeType, approximationType |-> approximationType,
     originalFileName |-> nameField, processId |-> idField]

NoRequest == VolumeRequest(NoFile, "", "", NoField, "")

\* op: the handler or callback; id: the processId it worked under; code, kind,
\* status, body: the response (status holds the body's status field or its
\* error text); stdout: the text the handler captured; exit: the child's exit
\* code; spawn: the script launched; prev: the status found before a write;
\* logged: what was appended to error_log.txt; req: the request's fields;
\* path, env: the input path and the environment the script was launched with;
\* args: the arguments that follow the script in the launch of /process;
\* sent: the number of responses the run has sent to its request.
NoEvent ==
    [op |-> "none", id |-> "", code |-> 0, kind |-> "none", status |-> Absent,
     body |-> <<>>, stdout |-> <<>>, exit |-> 0, spawn |-> "", prev |-> Absent,
     logged |-> "", req |-> NoRequest, path |-> <<>>, env |-> <<>>, args |-> <<>>,
     sent |-> 0]

Event(op, id) == [NoEvent EXCEPT !.op = op, !.id = id]

\* Handlers keep the state of a request that waits for its child in their
\* closure (resultData, output); requests share none of it, and the model
\* follows one such request at a time.
\* sent counts the responses the request has received so far.
Idle == [state |-> "idle", endpoint |-> "", pending |-> <<>>, resultData |-> <<>>,
         written |-> <<>>,
         path |-> <<>>, sent |-> 0]

----------------------------------------------------------------------------
(* Uploads and the launch of a script.                                     *)

\* multer.diskStorage: destination uploadsDir, filename file.originalname;
\* path.resolve(file.path) is the absolute path of that file.
AbsFilePath(file) == <<"uploads", file>>

\* process.env of the server: it may already carry the names the launch sets.
ProcessEnv == [PATH |-> "/usr/bin", PYTHONUNBUFFERED |-> "0", PROCESS_ID |-> "stale"]

\* { ...base, ...over }: the later properties win.
Spread(base, over) ==
    [k \in DOMAIN base \cup DOMAIN over |->
        IF k \in DOMAIN over THEN over[k] ELSE base[k]]

\* The older listing launches /process detached with no env option: the
\* child inherits the server's environment as it is.
JobEnvOlder(processId) == ProcessEnv

\* env: { ...process.env, PYTHONUNBUFFERED: '1', PROCESS_ID: processId }
JobEnv(processId) ==
    Spread(ProcessEnv, [PYTHONUNBUFFERED |-> "1", PROCESS_ID |-> processId])

\* env: { ...process.env, PYTHONUNBUFFERED: '1' }
DerivativeEnv == Spread(ProcessEnv, [PYTHONUNBUFFERED |-> "1"])

----------------------------------------------------------------------------
(* JavaScript property lookup on the registry, a plain object literal:     *)
(* an own property first, then the prototype chain up to Object.prototype. *)

Undefined == [kind |-> "undefined", ref |-> ""]

\* processingStatus[processId]
Lookup(key) ==
    IF key \in DOMAIN processingStatus THEN [kind |-> "job", ref |-> key]
    ELSE IF key = "__proto__" THEN [kind |-> "builtin", ref |-> "Object.prototype"]
    ELSE IF key = "constructor" THEN [kind |-> "builtin", ref |-> "Object"]
    ELSE IF key = "status" /\ "Object.prototype" \in objectStatus
         THEN [kind |-> "string", ref |-> "completed"]
    ELSE Undefined

\* if (statusInfo): every object, function and non-empty string is truthy.
Truthy(v) == v.kind # "undefined"

\* statusInfo.status: an own property, else what Object.prototype gives.
StatusOf(v) ==
    IF v.kind = "job" THEN processingStatus[v.ref].status
    ELSE IF v.kind = "builtin" /\ v.ref \in objectStatus THEN "completed"
    ELSE IF v.kind \in {"builtin", "string"} /\ "Object.prototype" \in objectStatus
         THEN "completed"
    ELSE Absent

----------------------------------------------------------------------------
(* uuidv4(): version-4 UUIDs; the library's contract is that no value is   *)
(* handed out twice.                                                       *)
uuidv4 == UUIDs \ drawn

\* Variant: the entry is stored under a status the other handlers and the
\* client do not know.
RegisterPending(id) ==
    [k \in DOMAIN processingStatus \cup {id} |->
        IF k = id THEN [status |-> "pending"] ELSE processingStatus[k]]

\* Variant: the handler launches the pipeline and leaves the registry as it is.
RegisterSkipped(id) == processingStatus

\* processingStatus[processId] = { status: 'processing' }
Register(id) ==
    [k \in DOMAIN processingStatus \cup {id} |->
        IF k = id THEN [status |-> "processing"] ELSE processingStatus[k]]

(* The name fields of a request.                                           *)

\* s.split('.')[0]: the characters before the first '.'.
RECURSIVE BeforeFirstDot(_)
BeforeFirstDot(s) ==
    IF s = <<>> \/ Head(s) = "." THEN <<>>
    ELSE <<Head(s)>> \o BeforeFirstDot(Tail(s))

\* Variant: the name is passed on whole.
DisplayNameWhole(field) ==
    IF field.present /\ field.text # <<>> THEN field.text ELSE <<"Unknown">>

\* req.body.originalFileName ? req.body.originalFileName.split('.')[0] : "Unknown"
DisplayName(field) ==
    IF field.present /\ field.text # <<>> THEN BeforeFirstDot(field.text)
    ELSE <<"Unknown">>

\* The originalFileName fields a /process request can carry: absent, empty,
\* and names with no, one and two dots, or nothing before the dot.
ProcessNames ==
    { NoField, Field(<<>>), Field(<<"d", "e", "m">>),
      Field(<<"a", ".", "t", "i", "f">>), Field(<<".", "t", "i", "f">>),
      Field(<<"a", ".", "b", ".", "t">>) }

\* The names used when every endpoint runs together.
BriefNames == { NoField, Field(<<"a", ".", "t", "i", "f">>) }

\* [scriptPath, absFilePath, originalFileName, processId], after the script
LaunchArgs(file, field, processId) ==
    <<AbsFilePath(file), DisplayName(field), processId>>

\* Variant: the handler goes on without looking at req.file.
MissingFileIgnored(file) == FALSE

\* if (!file)
MissingFile(file) == file = NoFile

\* Variant: the handler leaves the response to the close callback.
StartedAwaits(processId, file) ==
    [Event("process", processId) EXCEPT
        !.spawn = "complete_dem_analysis.py", !.path = AbsFilePath(file),
        !.env = JobEnv(processId), !.req = [NoRequest EXCEPT !.file = file]]

\* What the handler has done when it returns: the script launched on the
\* stored file and res.json({ message: 'Processing started', processId }).
Started(processId, file) ==
    [Event("process", processId) EXCEPT
        !.sent = 1, !.code = Ok, !.kind = "message",
        !.spawn = "complete_dem_analysis.py", !.path = AbsFilePath(file),
        !.env = JobEnv(processId), !.req = [NoRequest EXCEPT !.file = file]]

\* app.post('/process', upload.single('demFile'), ...)
\* (the handler says nothing about the client that sent the request)
Process(file, field) ==
    /\ server = "listening"
    /\ IF MissingFile(file)
       THEN /\ last' = [Event("process", "") EXCEPT
                           !.sent = 1, !.code = BadRequest, !.kind = "error",
                           !.status = "Nessun file caricato.",
                           !.req = [NoRequest EXCEPT !.file = file]]
            /\ UNCHANGED <<processingStatus, objectStatus, children, volume, issued,
                           acked, inputs, server, drawn>>
       ELSE \E processId \in uuidv4 :
            /\ processingStatus' = Register(processId)
            /\ children' = [k \in DOMAIN children \cup {processId} |->
                               IF k = processId THEN "running" ELSE children[k]]
            /\ inputs' = [k \in DOMAIN inputs \cup {processId} |->
                             IF k = processId THEN AbsFilePath(file) ELSE inputs[k]]
            /\ issued' = issued \cup {processId}
            /\ drawn' = drawn \cup {processId}
            /\ last' = [Started(processId, file) EXCEPT
                           !.args = LaunchArgs(file, field, processId),
                           !.req = [@ EXCEPT !.originalFileName = field]]
            /\ UNCHANGED <<objectStatus, volume, acked, server>>

\* The response of app.get('/processStatus/:processId', ...): a status that
\* is undefined leaves the body without a status field.
StatusResponse(processId) ==
    LET statusInfo == Lookup(processId) IN
    IF Truthy(statusInfo)
    THEN [Event("processStatus", processId) EXCEPT
             !.sent = 1, !.code = Ok, !.kind = "status", !.status = StatusOf(statusInfo)]
    ELSE [Event("processStatus", processId) EXCEPT
             !.sent = 1, !.code = NotFound, !.kind = "error", !.status = "Process ID not found"]

\* app.get('/processStatus/:processId', ...)
\* (the handler says nothing about the client that sent the request)
ProcessStatus(processId) ==
    /\ server = "listening"
    /\ last' = StatusResponse(processId)
    /\ UNCHANGED <<processingStatus, objectStatus, children, volume, issued, acked, inputs, server, drawn>>

\* Variant: the write replaces the registry by the one entry it updates.
MarkCompletedOnly(processId) ==
    [k \in {processId} |-> [status |-> "completed"]]

\* Variant: the callback flips the status instead of setting it.
MarkCompletedToggle(processId) ==
    [processingStatus EXCEPT ![processId].status =
        IF @ = "completed" THEN "processing" ELSE "completed"]

\* Variant: the callback marks every job of the registry.
MarkCompletedAll(processId) ==
    [k \in DOMAIN processingStatus |-> [status |-> "completed"]]

\* Variant: the callback is honoured only once the job's child has exited.
MarkCompletedIfClosed(processId) ==
    IF processId \in DOMAIN children /\ children[processId] = "closed"
    THEN [processingStatus EXCEPT ![processId].status = "completed"]
    ELSE processingStatus

\* processingStatus[processId].status = 'completed'
MarkCompleted(processId) ==
    [processingStatus EXCEPT ![processId].status = "completed"]

\* app.post('/processComplete/:processId', ...)
ProcessComplete(processId) ==
    LET target == Lookup(processId) IN
    /\ server = "listening"
    /\ IF Truthy(target)
       THEN /\ processingStatus' =
                   IF target.kind = "job" THEN MarkCompleted(processId)
                   ELSE processingStatus
            \* a write on a built-in object gives it an own property; a write
            \* on a primitive string is dropped (the module is not in strict mode)
            /\ objectStatus' =
                   IF target.kind = "builtin" THEN objectStatus \cup {target.ref}
                   ELSE objectStatus
            /\ acked' = acked \cup {processId}
            /\ last' = [Event("processComplete", processId) EXCEPT
                           !.sent = 1, !.code = Ok, !.kind = "message",
                           !.prev = StatusOf(target)]
            /\ UNCHANGED <<children, volume, issued, inputs, server, drawn, client>>
       ELSE /\ last' = [Event("processComplete", processId) EXCEPT
                           !.sent = 1, !.code = NotFound, !.kind = "error",
                           !.status = "Process ID not found"]
            /\ UNCHANGED <<processingStatus, objectStatus, children, volume, issued,
                           acked, inputs, server, drawn, client>>

\* child.stdout.on('data', ...) in /process: logs the line
ProcessStdout(processId) ==
    /\ processId \in DOMAIN children /\ children[processId] = "running"
    /\ last' = Event("processStdout", processId)
    /\ UNCHANGED <<processingStatus, objectStatus, children, volume, issued, acked, inputs, server, drawn, client>>

\* child.stderr.on('data', ...) in /process: logs the line
ProcessStderr(processId) ==
    /\ processId \in DOMAIN children /\ children[processId] = "running"
    /\ last' = Event("processStderr", processId)
    /\ UNCHANGED <<processingStatus, objectStatus, children, volume, issued, acked, inputs, server, drawn, client>>

\* Variant: the close callback reports the exit code in the registry.
AfterCloseForced(processId, code) ==
    [processingStatus EXCEPT ![processId].status =
        IF code = 0 THEN "completed" ELSE "error"]

\* Variant: the close callback marks a clean exit as completed.
AfterCloseCompletes(processId, code) ==
    IF code = 0 THEN [processingStatus EXCEPT ![processId].status = "completed"]
    ELSE processingStatus

\* Variant: the close callback drops the job of a failed child.
AfterCloseForgets(processId, code) ==
    IF code = 0 THEN processingStatus
    ELSE [k \in DOMAIN processingStatus \ {processId} |-> processingStatus[k]]

\* The registry after the close callback of /process: as it was ("Qui NON
\* lo forziamo": the status is left to the script's own callback).
AfterClose(processId, code) == processingStatus

\* child.on('close', code => ...) in /process: logs the exit code
ProcessClose(processId, code) ==
    /\ processId \in DOMAIN children /\ children[processId] = "running"
    /\ children' = [children EXCEPT ![processId] = "closed"]
    /\ processingStatus' = AfterClose(processId, code)
    /\ last' = [Event("processClose", processId) EXCEPT !.exit = code]
    /\ UNCHANGED <<objectStatus, volume, issued, acked, inputs, server, drawn, client>>

----------------------------------------------------------------------------
(* Text.  The child's stdout is a sequence of lexical tokens; a chunk of   *)
(* a data event is a piece of that sequence.  JSON.parse is computed on    *)
(* the tokens: whitespace is skipped, a value is a scalar, an array or an  *)
(* object, and nothing may follow the value.                               *)

Whitespace == {"\n", " "}
StringTokens == {"\"result\"", "\"images\"", "\"other\"", "\"X=1\"", "\"a.png\"", "\"\""}
NumberTokens == {"0", "1"}
LiteralTokens == {"null", "true", "false"}
Scalars == StringTokens \cup NumberTokens \cup LiteralTokens

StripWhitespace(text) == SelectSeq(text, LAMBDA tok : tok \notin Whitespace)

RECURSIVE EndOfValue(_, _)
RECURSIVE EndOfElements(_, _)
RECURSIVE EndOfMembers(_, _)

\* The index after the JSON value that starts at t[i]; 0 when none does.
EndOfValue(t, i) ==
    IF i > Len(t) THEN 0
    ELSE IF t[i] \in Scalars THEN i + 1
    ELSE IF t[i] = "[" THEN
        IF i + 1 <= Len(t) /\ t[i + 1] = "]" THEN i + 2 ELSE EndOfElements(t, i + 1)
    ELSE IF t[i] = "{" THEN
        IF i + 1 <= Len(t) /\ t[i + 1] = "}" THEN i + 2 ELSE EndOfMembers(t, i + 1)
    ELSE 0

\* t[i] starts an element of an array: the index after the closing bracket.
EndOfElements(t, i) ==
    LET j == EndOfValue(t, i) IN
    IF j = 0 \/ j > Len(t) THEN 0
    ELSE IF t[j] = "]" THEN j + 1
    ELSE IF t[j] = "," THEN EndOfElements(t, j + 1)
    ELSE 0

\* t[i] starts a member of an object: the index after the closing brace.
EndOfMembers(t, i) ==
    IF i + 1 > Len(t) \/ t[i] \notin StringTokens \/ t[i + 1] # ":" THEN 0
    ELSE LET j == EndOfValue(t, i + 2) IN
         IF j = 0 \/ j > Len(t) THEN 0
         ELSE IF t[j] = "}" THEN j + 1
         ELSE IF t[j] = "," THEN EndOfMembers(t, j + 1)
         ELSE 0

\* JSON.parse(resultData): the value (its tokens, whitespace gone), or a
\* SyntaxError thrown.
JSONParse(text) ==
    LET t == StripWhitespace(text) IN
    IF EndOfValue(t, 1) = Len(t) + 1
    THEN [ok |-> TRUE, value |-> t]
    ELSE [ok |-> FALSE, value |-> <<>>]

\* The value of an absent property: undefined.
NoValue == <<>>

RECURSIVE MemberFrom(_, _, _, _)
\* v[i] starts a member of the object v: the value of the last member named key.
MemberFrom(v, i, key, found) ==
    LET j == EndOfValue(v, i + 2)
        now == IF v[i] = key THEN SubSeq(v, i + 2, j - 1) ELSE found
    IN IF v[j] = "," THEN MemberFrom(v, j + 1, key, now) ELSE now

\* parsed.result, parsed.images: a member of an object; arrays, strings,
\* numbers and booleans have no such property.
Property(v, key) ==
    IF v # <<>> /\ v[1] = "{" /\ v[2] # "}" THEN MemberFrom(v, 2, key, NoValue)
    ELSE NoValue

\* JavaScript truthiness of a parsed value: null, false, 0, "" and
\* undefined are falsy; every object and array is truthy.
TruthyValue(v) ==
    v \notin {NoValue, <<"null">>, <<"false">>, <<"0">>, <<"\"\"">>}

\* Variant: every parsed value is taken as structured output.
StructuredAnyJson(parsed) == TruthyValue(parsed)

\* if (parsed && (parsed.result || parsed.images))
Structured(parsed) ==
    /\ TruthyValue(parsed)
    /\ \/ TruthyValue(Property(parsed, "\"result\""))
       \/ TruthyValue(Property(parsed, "\"images\""))

----------------------------------------------------------------------------
(* /calculateVolume.                                                       *)

FileNames == {NoField, Field(<<"a", ".", "t", "i", "f">>), Field(<<".", "t", "i", "f">>)}

VolumeTypes == {"", "circular", "elliptical", "conical"}
ApproximationTypes == {"", "approximation1", "approximation2", "approximation3"}

NoScript == "<undefined>"

\* let scriptPath; if (volumeType === 'circular') { ... } else if (...) { ... }
ScriptPath(volumeType, approximationType) ==
    IF volumeType = "circular" THEN
        IF approximationType = "approximation1" THEN "CircularVolcano_Approx1.py"
        ELSE IF approximationType = "approximation2" THEN "CircularVolcano_Approx2.py"
        ELSE NoScript
    ELSE IF volumeType = "elliptical" THEN
        IF approximationType = "approximation1" THEN "EllipticalVolcano_Approx1.py"
        ELSE IF approximationType = "approximation2" THEN "EllipticalVolcano_Approx2.py"
        ELSE NoScript
    ELSE NoScript

\* The older listing answers 400 only in the else branch of the volumeType
\* test, so a known volumeType with an unknown approximationType goes on to
\* spawn with scriptPath undefined.
InvalidSelectorOlder(volumeType, approximationType) ==
    volumeType \notin {"circular", "elliptical"}

\* if (!scriptPath) return res.status(400)...
InvalidSelector(volumeType, approximationType) ==
    ScriptPath(volumeType, approximationType) = NoScript

\* The processId fields a request can carry; "" stands for no field.
VolumeIdFields == {"", "uuid-1", "constructor"}

\* Variant: the handler draws a new id for every request.
VolumeIdsAlwaysFresh(req) == uuidv4

\* req.body.processId ? String(req.body.processId) : uuidv4(): the ids the
\* handler can come to work under.
VolumeIds(req) == IF req.processId # "" THEN {req.processId} ELSE uuidv4

VolumeRequests ==
    { VolumeRequest(f, v, a, n, i) :
        f \in Uploads, v \in VolumeTypes, a \in ApproximationTypes,
        n \in FileNames, i \in VolumeIdFields }
\* The requests used when every endpoint runs together.
BriefRequests ==
    { VolumeRequest("a.tif", "circular", "approximation1", NoField, "uuid-1"),
      VolumeRequest("a.tif", "elliptical", "approximation2",
                    Field(<<"a", ".", "t", "i", "f">>), "uuid-1"),
      VolumeRequest("a.tif", "elliptical", "approximation3", NoField, "uuid-1"),
      VolumeRequest(NoFile, "circular", "approximation1", NoField, "uuid-1") }

\* The brief requests under every processId field.
IdRequests ==
    { [req EXCEPT !.processId = i] : req \in BriefRequests, i \in VolumeIdFields }

\* What the volume child can write to its stdout, start to end.
StructuredOutput ==
    <<"{", "\"result\"", ":", "\"X=1\"", ",", "\"images\"", ":", "[", "\"a.png\"", "]", "}">>
Outputs ==
    { StructuredOutput,
      <<"X=1", "\n">>,
      <<"\"X=1\"">>,
      <<>>,
      <<"{", "\"result\"", ":", "0", "}">>,
      <<"{", "\"result\"", ":", "\"\"", ",", "\"images\"", ":", "null", "}">>,
      <<"{", "\"result\"", ":", "0", ",", "\"result\"", ":", "\"X=1\"", "}", "\n">>,
      <<"{", "\"other\"", ":", "1", "}">>,
      <<"{", "\"images\"", ":", "[", "]", "}", "\n">>,
      <<"{", "\"result\"", ":">>,
      <<"X=1", "\n", "{", "\"result\"", ":", "1", "}">>,
      <<"[", "\"a.png\"", "]">>,
      <<"null">>,
      <<"1">> }
\* The child writes bytes.  An ASCII byte stands for its character; LeadByte
\* and ContinuationByte are the two bytes of one UTF-8 character (0xC2 0xB3,
\* the superscript three of a volume in cubic metres).
LeadByte == "0xC2"
ContinuationByte == "0xB3"
CubicSign == "U+00B3"
ReplacementCharacter == "U+FFFD"

\* d.toString(): the chunk decoded as UTF-8 on its own; a lead byte without
\* its continuation and a continuation without its lead byte each decode
\* to U+FFFD.
RECURSIVE toString(_)
toString(d) ==
    IF d = <<>> THEN <<>>
    ELSE IF Head(d) = LeadByte
    THEN IF Len(d) >= 2 /\ d[2] = ContinuationByte
         THEN <<CubicSign>> \o toString(SubSeq(d, 3, Len(d)))
         ELSE <<ReplacementCharacter>> \o toString(Tail(d))
    ELSE IF Head(d) = ContinuationByte
    THEN <<ReplacementCharacter>> \o toString(Tail(d))
    ELSE <<Head(d)>> \o toString(Tail(d))

\* Outputs with a character of more than one byte.
ByteOutputs ==
    { <<"X=1", "m", LeadByte, ContinuationByte, "\n">>,
      <<"V", "=", "2", "m", LeadByte, ContinuationByte, "\n", "A", "=", "3", "\n">>,
      <<LeadByte, ContinuationByte>>,
      <<"a", LeadByte, ContinuationByte, "b", LeadByte, ContinuationByte>>,
      <<"X=1", "\n">>,
      StructuredOutput }

\* The outputs used when every endpoint runs together.
BriefOutputs == { <<"{", "\"result\"", ":", "1", "}">>, <<"X=1", "\n">> }

\* app.post('/calculateVolume', upload.single('demFile'), ...), up to the spawn
\* (the handler says nothing about the client that sent the request)
CalculateVolume(req, output) ==
    LET file == req.file
        volumeType == req.volumeType
        approximationType == req.approximationType
        originalFileName == DisplayName(req.originalFileName)
    IN
    /\ server = "listening"
    /\ volume = Idle
    /\ \E processId \in VolumeIds(req) :
       /\ drawn' = IF req.processId # "" THEN drawn ELSE drawn \cup {processId}
       /\ IF \/ file = NoFile \/ volumeType = "" \/ approximationType = ""
             \/ originalFileName = <<>>
          THEN /\ last' = [Event("calculateVolume", processId) EXCEPT
                              !.sent = 1, !.code = BadRequest, !.kind = "error",
                              !.status = "Missing required fields.", !.req = req]
               /\ UNCHANGED volume
          ELSE IF InvalidSelector(volumeType, approximationType)
          THEN /\ last' = [Event("calculateVolume", processId) EXCEPT
                              !.sent = 1, !.code = BadRequest, !.kind = "error",
                              !.status = "Invalid volumeType or approximationType",
                              !.req = req]
               /\ UNCHANGED volume
          ELSE /\ volume' = [state |-> "running", endpoint |-> "calculateVolume",
                             pending |-> output, resultData |-> <<>>,
                             written |-> <<>>,
                             path |-> AbsFilePath(file), sent |-> 0]
               /\ last' = [Event("calculateVolume", processId) EXCEPT
                              !.spawn = ScriptPath(volumeType, approximationType),
                              !.path = AbsFilePath(file), !.env = JobEnv(processId),
                              !.req = req]
    /\ UNCHANGED <<processingStatus, objectStatus, children, issued, acked, inputs, server>>

\* resultData += s
Concat(resultData, s) == resultData \o s

\* Variant: the handler answers from the data callback, with what it has read.
VolumeStdoutAnswers ==
    /\ volume.endpoint = "calculateVolume"
    /\ volume.pending # <<>>
    /\ volume' = Idle
    /\ last' = [Event("volumeStdout", "") EXCEPT
                   !.sent = 1, !.code = Ok, !.kind = "text", !.body = volume.pending]
    /\ UNCHANGED <<processingStatus, objectStatus, children, issued, acked, inputs, server, drawn, client>>

\* child.stdout.on('data', d => { resultData += d.toString(); ... })
VolumeStdout ==
    /\ volume.endpoint = "calculateVolume"
    /\ \E n \in 1..Len(volume.pending) :
       volume' = [volume EXCEPT
                    !.resultData = Concat(@, toString(SubSeq(volume.pending, 1, n))),
                    !.written = @ \o SubSeq(volume.pending, 1, n),
                    !.pending = SubSeq(@, n + 1, Len(@))]
    /\ last' = Event("volumeStdout", "")
    /\ UNCHANGED <<processingStatus, objectStatus, children, issued, acked, inputs, server, drawn, client>>

\* child.stderr.on('data', ...) in /calculateVolume: logs the lines
VolumeStderr ==
    /\ volume.endpoint = "calculateVolume"
    /\ last' = Event("volumeStderr", "")
    /\ UNCHANGED <<processingStatus, objectStatus, children, volume, issued, acked, inputs, server, drawn, client>>

\* Variant: a failed run returns what the child wrote next to the error.
VolumeResponseLeaks(code, resultData) ==
    LET ev == [Event("volumeClose", "") EXCEPT !.exit = code, !.stdout = resultData] IN
    IF code = 0 THEN [ev EXCEPT !.sent = 1, !.code = Ok, !.kind = "text", !.body = resultData]
    ELSE [ev EXCEPT !.sent = 1, !.code = ServerError, !.kind = "error",
                    !.status = "Error calculating volume", !.body = resultData]

\* The response of the close handler of /calculateVolume.
VolumeResponse(code, resultData) ==
    LET parsed == JSONParse(resultData)
        ev == [Event("volumeClose", "") EXCEPT !.exit = code, !.stdout = resultData]
    IN
    IF code = 0 THEN
        IF parsed.ok /\ Structured(parsed.value)
        THEN [ev EXCEPT !.sent = 1, !.code = Ok, !.kind = "parsed", !.body = parsed.value]
        ELSE [ev EXCEPT !.sent = 1, !.code = Ok, !.kind = "text", !.body = resultData]
    ELSE [ev EXCEPT !.sent = 1, !.code = ServerError, !.kind = "error",
                    !.status = "Error calculating volume"]

\* Variant: the handler answers on 'exit' and on 'close': the request stays
\* open after the first answer.
VolumeCloseStaysOpen(code) ==
    /\ volume.endpoint = "calculateVolume"
    /\ volume.pending = <<>>
    /\ volume.sent < 2
    /\ volume' = [volume EXCEPT !.sent = @ + 1]
    /\ last' = VolumeResponse(code, volume.resultData)
    /\ UNCHANGED <<processingStatus, objectStatus, children, issued, acked, inputs, server, drawn>>

\* Variant: a clean exit of the volume script marks the registered jobs as
\* completed.
VolumeCloseMarks(code) ==
    /\ volume.endpoint = "calculateVolume"
    /\ volume.pending = <<>>
    /\ volume' = Idle
    /\ last' = VolumeResponse(code, volume.resultData)
    /\ processingStatus' =
           IF code = 0
           THEN [k \in DOMAIN processingStatus |-> [status |-> "completed"]]
           ELSE processingStatus
    /\ UNCHANGED <<objectStatus, children, issued, acked, inputs, server, drawn>>

\* child.on('close', code => ...) in /calculateVolume: fires once the
\* child has exited and its streams have ended (the callback says nothing
\* about the client that receives the answer).
VolumeClose(code) ==
    /\ volume.endpoint = "calculateVolume"
    /\ volume.pending = <<>>
    /\ volume' = Idle
    /\ last' = VolumeResponse(code, volume.resultData)
    /\ UNCHANGED <<processingStatus, objectStatus, children, issued, acked, inputs, server, drawn>>

----------------------------------------------------------------------------
(* /shadedRelief, /calculateSlopes, /calculateCurvatures.                  *)

DerivativeEndpoints == {"shadedRelief", "calculateSlopes", "calculateCurvatures"}

\* const scriptPath = path.join(__dirname, 'scripts', ...)
DerivativeScript(endpoint) ==
    CASE endpoint = "shadedRelief" -> "generate_shaded_relief.py"
      [] endpoint = "calculateSlopes" -> "generate_slopes.py"
      [] endpoint = "calculateCurvatures" -> "calculate_curvatures.py"

\* The line the close callback appends to error_log.txt on a non-zero exit.
DerivativeLogLine(endpoint) ==
    CASE endpoint = "shadedRelief" -> "Errore Shaded Relief. Exit: "
      [] endpoint = "calculateSlopes" -> "Errore slopes. Exit: "
      [] endpoint = "calculateCurvatures" -> "Errore curvature. Exit: "

DerivativeError(endpoint) ==
    CASE endpoint = "shadedRelief" -> "Errore durante la generazione dello Shaded Relief."
      [] endpoint = "calculateSlopes" -> "Errore durante la generazione delle due pendenze."
      [] endpoint = "calculateCurvatures" -> "Errore durante la generazione delle curvature."

DerivativeMessage(endpoint) ==
    CASE endpoint = "shadedRelief" -> "Shaded Relief generated successfully"
      [] endpoint = "calculateSlopes" -> "Slope calculation successful"
      [] endpoint = "calculateCurvatures" -> "Curvature calcolate con successo"

\* What a derivative child can write to its stdout, and to its stderr.
DerivativeOutputs == { <<"X=1", "\n">> }
\* The outputs used when the derivative endpoints run alone.
DerivativeTexts == DerivativeOutputs \cup { <<>>, <<"\"a.png\"">>, StructuredOutput }
StderrText == "Traceback"

\* app.post('/shadedRelief' | '/calculateSlopes' | '/calculateCurvatures', ...),
\* up to the spawn
Derivative(endpoint, file, output) ==
    /\ server = "listening"
    /\ volume = Idle
    /\ IF file = NoFile
       THEN /\ last' = [Event(endpoint, "") EXCEPT
                           !.sent = 1, !.code = BadRequest, !.kind = "text",
                           !.status = "Nessun file caricato.",
                           !.req = [NoRequest EXCEPT !.file = file]]
            /\ UNCHANGED volume
       ELSE /\ volume' = [state |-> "running", endpoint |-> endpoint,
                          pending |-> output, resultData |-> <<>>,
                             written |-> <<>>,
                          path |-> AbsFilePath(file), sent |-> 0]
            /\ last' = [Event(endpoint, "") EXCEPT
                           !.spawn = DerivativeScript(endpoint),
                           !.path = AbsFilePath(file), !.env = DerivativeEnv,
                           !.req = [NoRequest EXCEPT !.file = file]]
    /\ UNCHANGED <<processingStatus, objectStatus, children, issued, acked, inputs, server, drawn, client>>

\* child.stdout.on('data', d => output += d.toString())
DerivativeStdout ==
    /\ volume.endpoint \in DerivativeEndpoints
    /\ \E n \in 1..Len(volume.pending) :
       volume' = [volume EXCEPT
                    !.resultData = Concat(@, toString(SubSeq(volume.pending, 1, n))),
                    !.written = @ \o SubSeq(volume.pending, 1, n),
                    !.pending = SubSeq(@, n + 1, Len(@))]
    /\ last' = Event("derivativeStdout", "")
    /\ UNCHANGED <<processingStatus, objectStatus, children, issued, acked, inputs, server, drawn, client>>

\* child.stderr.on('data', d => fs.appendFile('error_log.txt', d.toString(), ...))
DerivativeStderr ==
    /\ volume.endpoint \in DerivativeEndpoints
    /\ last' = [Event("derivativeStderr", "") EXCEPT !.logged = StderrText]
    /\ UNCHANGED <<processingStatus, objectStatus, children, volume, issued, acked, inputs, server, drawn, client>>

\* Variant: a failed run is written to the log and the request succeeds.
DerivativeResponseForgiving(endpoint, code, output) ==
    LET ev == [Event("derivativeClose", "") EXCEPT !.exit = code, !.stdout = output] IN
    IF code # 0
    THEN [ev EXCEPT !.logged = DerivativeLogLine(endpoint),
                    !.sent = 1, !.code = Ok, !.kind = "message",
                    !.status = DerivativeMessage(endpoint)]
    ELSE [ev EXCEPT !.sent = 1, !.code = Ok, !.kind = "message",
                    !.status = DerivativeMessage(endpoint),
                    !.body = IF endpoint = "calculateCurvatures" THEN output ELSE <<>>]

\* Variant: no endpoint puts the captured output in the body.
DerivativeResponseQuiet(endpoint, code, output) ==
    LET ev == [Event("derivativeClose", "") EXCEPT !.exit = code, !.stdout = output] IN
    IF code # 0
    THEN [ev EXCEPT !.logged = DerivativeLogLine(endpoint),
                    !.sent = 1, !.code = ServerError, !.kind = "error",
                    !.status = DerivativeError(endpoint)]
    ELSE [ev EXCEPT !.sent = 1, !.code = Ok, !.kind = "message",
                    !.status = DerivativeMessage(endpoint)]

\* The response of the close callback of a derivative endpoint; only
\* /calculateCurvatures puts the captured output in the body.
DerivativeResponse(endpoint, code, output) ==
    LET ev == [Event("derivativeClose", "") EXCEPT !.exit = code, !.stdout = output] IN
    IF code # 0
    THEN [ev EXCEPT !.logged = DerivativeLogLine(endpoint),
                    !.sent = 1, !.code = ServerError, !.kind = "error",
                    !.status = DerivativeError(endpoint)]
    ELSE [ev EXCEPT !.sent = 1, !.code = Ok, !.kind = "message",
                    !.status = DerivativeMessage(endpoint),
                    !.body = IF endpoint = "calculateCurvatures" THEN output ELSE <<>>]

\* child.on('close', code => ...) of a derivative endpoint
DerivativeClose(code) ==
    /\ volume.endpoint \in DerivativeEndpoints
    /\ volume.pending = <<>>
    /\ volume' = Idle
    /\ last' = DerivativeResponse(volume.endpoint, code, volume.resultData)
    /\ UNCHANGED <<processingStatus, objectStatus, children, issued, acked, inputs, server, drawn, client>>

----------------------------------------------------------------------------
(* A child that cannot be started.  spawn() returns a ChildProcess in any   *)
(* case; when the interpreter at pythonPath cannot be executed the child    *)
(* emits 'error' on the next tick, before any other callback runs.  The     *)
(* handlers attach listeners for 'data' and 'close' only, and the listing   *)
(* installs no 'uncaughtException' handler: the event is thrown and Node    *)
(* exits, with the registry and every open request.                         *)

Launches == {"process", "calculateVolume"} \cup DerivativeEndpoints

\* child 'error' with no listener, right after the handler that spawned it
SpawnError ==
    /\ server = "listening"
    /\ last.op \in Launches /\ last.spawn # ""
    /\ server' = "exited"
    /\ processingStatus' = <<>>
    /\ objectStatus' = {}
    /\ children' = <<>>
    /\ inputs' = <<>>
    /\ volume' = Idle
    /\ last' = Event("spawnError", last.id)
    /\ UNCHANGED <<issued, acked, drawn, client>>

----------------------------------------------------------------------------

(* The upload form of the browser client (UploadForm.js in App.js).        *)

\* The files a user can pick, and their names as the form sends them.
ClientFiles == {"a.tif", "dem"}
FileName(file) ==
    IF file = "a.tif" THEN <<"a", ".", "t", "i", "f">> ELSE <<"d", "e", "m">>

\* useState(...) of UploadForm and App at mount; processId "" is null, view
\* "upload" is processingSuccess = false.
\* failed: the processIds a status request has failed for; after: those a
\* status request was sent for after such a failure.
\* demFile: the file App hands to VolumeSelection.  polls, posts: the status
\* requests (in the order sent) and the uploads whose answer is on its way
\* to the browser.
\* uploaded: the file each POST /process carried; handled: the processIds
\* whose 'completed' answer was handled; twice: those it was handled for
\* more than once.
\* volumeType ... isLoading: useState(...) of VolumeSelection at mount, result
\* '' being the empty text.  calc: the /calculateVolume request that waits
\* for its answer, whether the component that sent it is still on the page
\* and whether the result was cleared since it was sent; stale: the result
\* on display is the answer to a request sent before the result was cleared.
ClientInit ==
    [view |-> "upload", processId |-> "", selectedFile |-> NoFile,
     uploadMessage |-> "", isProcessing |-> FALSE, pollingInterval |-> FALSE,
     failed |-> {}, after |-> {},
     demFile |-> NoFile, polls |-> <<>>, posts |-> {},
     uploaded |-> <<>>, handled |-> {}, twice |-> {},
     volumeType |-> "", approximationType |-> "", selectedApproximation |-> "",
     infoImage |-> "", result |-> [text |-> TRUE, value |-> <<>>],
     isLoading |-> FALSE,
     calc |-> [sent |-> FALSE, mounted |-> FALSE, cleared |-> FALSE],
     stale |-> FALSE]

\* The most answers of one kind that can be on their way at a time.
MaxInFlight == 2

\* clearInterval in the cleanup of the effect: the callbacks still waiting
\* for an answer hold an interval that no longer runs.
Cleared(polls) == [i \in DOMAIN polls |-> [polls[i] EXCEPT !.interval = FALSE]]

\* The form leaves the page: the setters of its state do nothing any more.
Unmounted(answers) == { [r EXCEPT !.mounted = FALSE] : r \in answers }
UnmountedPolls(polls) == [i \in DOMAIN polls |-> [polls[i] EXCEPT !.mounted = FALSE]]

\* A sequence without its i-th element.
Without(seq, i) == SubSeq(seq, 1, i - 1) \o SubSeq(seq, i + 1, Len(seq))

\* useEffect(..., [processId, selectedFile, setDemFile, setProcessingSuccess]):
\* when processId or selectedFile has changed, the cleanup clears the
\* interval and the body starts a new one if there is a processId.
Effect(c) ==
    IF c.processId # ""
    THEN [c EXCEPT !.isProcessing = TRUE, !.pollingInterval = TRUE,
                   !.polls = Cleared(@)]
    ELSE [c EXCEPT !.pollingInterval = FALSE, !.polls = Cleared(@)]

\* setSelectedFile(file); setUploadMessage(''): every change or drop event
\* brings a new File object, so the effect runs again.
Selected(file) ==
    Effect([client EXCEPT !.selectedFile = file, !.uploadMessage = ""])

\* handleFileChange: the input is disabled while isProcessing, and fires no
\* change event when the same file is picked again.
HandleFileChange(file) ==
    /\ client.view = "upload"
    /\ ~client.isProcessing
    /\ file # client.selectedFile
    /\ client' = Selected(file)
    /\ UNCHANGED serverVars

\* handleDrop: the drop area is never disabled.
HandleDrop(file) ==
    /\ client.view = "upload"
    /\ client' = Selected(file)
    /\ UNCHANGED serverVars

\* handleSubmit: posts demFile and originalFileName to /process and keeps
\* the processId of a 200 answer; the button is disabled while isProcessing
\* or without a file.
HandleSubmit ==
    /\ client.view = "upload"
    /\ ~client.isProcessing
    /\ client.selectedFile # NoFile
    /\ \/ /\ Process(client.selectedFile, Field(FileName(client.selectedFile)))
          /\ client' =
                IF last'.code = Ok
                THEN Effect([client EXCEPT
                               !.uploadMessage = "", !.processId = last'.id,
                               !.uploaded = [k \in DOMAIN @ \cup {last'.id} |->
                                   IF k = last'.id THEN client.selectedFile ELSE @[k]]])
                ELSE [client EXCEPT !.uploadMessage =
                                        "Error: Server responded with status"]
       \/ /\ client' = [client EXCEPT !.uploadMessage =
                                          "Error: No response received from server."]
          /\ UNCHANGED serverVars

\* catch (error) { clearInterval(pollingInterval); setUploadMessage(...);
\* setIsProcessing(false) }: axios throws on a transport error and on an
\* answer outside 2xx.
PollFailed(c) ==
    [c EXCEPT !.pollingInterval = FALSE, !.isProcessing = FALSE,
              !.uploadMessage = "Error checking processing status.",
              !.failed = @ \cup {c.processId}]

\* The body of the interval callback after the answer has arrived.
PollAnswered(c, response) ==
    IF response.code # Ok THEN PollFailed(c)
    ELSE IF response.status = "completed"
    THEN \* setProcessingSuccess(true): App shows VolumeSelection, the form
         \* unmounts and its cleanup clears the interval
         \* setDemFile(selectedFile)
         [c EXCEPT !.pollingInterval = FALSE, !.isProcessing = FALSE,
                   !.view = "volume", !.demFile = c.selectedFile,
                   !.polls = UnmountedPolls(Cleared(@)), !.posts = Unmounted(@),
                   !.handled = @ \cup {c.processId},
                   !.twice = IF c.processId \in c.handled
                             THEN @ \cup {c.processId} ELSE @]
    ELSE IF response.status = "error"
    THEN [c EXCEPT !.pollingInterval = FALSE, !.isProcessing = FALSE,
                   !.uploadMessage = "Error during processing."]
    ELSE c

\* One tick of setInterval(..., 5000): GET /processStatus/${processId}, which
\* the server answers or which fails on the way.
PollTick ==
    LET sent == [client EXCEPT !.after =
                    IF client.processId \in client.failed
                    THEN @ \cup {client.processId} ELSE @]
    IN
    /\ client.view = "upload"
    /\ client.pollingInterval
    /\ \/ /\ ProcessStatus(client.processId)
          /\ client' = PollAnswered(sent, last')
       \/ /\ client' = PollFailed(sent)
          /\ UNCHANGED serverVars

\* handleSubmit up to `await axios.post(...)`: the server handles the upload
\* and its answer is on its way.  Nothing is set that disables the button.
SubmitPost ==
    /\ client.view = "upload"
    /\ ~client.isProcessing
    /\ client.selectedFile # NoFile
    /\ Cardinality(client.posts) < MaxInFlight
    /\ Process(client.selectedFile, Field(FileName(client.selectedFile)))
    /\ client' = [client EXCEPT
                     !.uploadMessage = "",
                     !.posts = @ \cup {[processId |-> last'.id, code |-> last'.code,
                                        mounted |-> TRUE]},
                     !.uploaded = [k \in DOMAIN @ \cup {last'.id} |->
                                     IF k = last'.id THEN client.selectedFile ELSE @[k]]]

\* handleSubmit after the await: setProcessId(receivedProcessId) on a 200,
\* a message otherwise.  setProcessId belongs to App; the effect runs if the
\* form is on the page.
SubmitResumes(r) ==
    /\ r \in client.posts
    /\ LET c == [client EXCEPT !.posts = @ \ {r}] IN
       client' =
          IF r.code = Ok
          THEN IF c.view = "upload"
               THEN Effect([c EXCEPT !.processId = r.processId])
               ELSE [c EXCEPT !.processId = r.processId]
          ELSE IF r.mounted
               THEN [c EXCEPT !.uploadMessage = "Error: Server responded with status"]
               ELSE c
    /\ UNCHANGED serverVars

\* One tick of the interval up to `await axios.get(...)`: the server answers
\* and the answer is on its way while the interval keeps running.
PollGet ==
    LET sent == [client EXCEPT !.after =
                    IF client.processId \in client.failed
                    THEN @ \cup {client.processId} ELSE @]
    IN
    /\ client.view = "upload"
    /\ client.pollingInterval
    /\ Len(client.polls) < MaxInFlight
    /\ ProcessStatus(client.processId)
    /\ client' = [sent EXCEPT
                     !.polls = Append(@, [processId |-> client.processId,
                                          selectedFile |-> client.selectedFile,
                                          code |-> last'.code, status |-> last'.status,
                                          interval |-> TRUE, mounted |-> TRUE])]

\* The interval callback after the await, run with the processId, the
\* selectedFile and the pollingInterval of the render that started it.
\* setProcessingSuccess and setDemFile belong to App and always act; the
\* setters of the form act while that form is on the page.
PollResumed(c, r) ==
    LET stopped == IF r.interval THEN [c EXCEPT !.pollingInterval = FALSE] ELSE c
        idle == IF r.mounted THEN [stopped EXCEPT !.isProcessing = FALSE] ELSE stopped
    IN
    IF r.code # Ok
    THEN [idle EXCEPT !.uploadMessage =
                          IF r.mounted THEN "Error checking processing status." ELSE @,
                      !.failed = @ \cup {r.processId}]
    ELSE IF r.status = "completed"
    THEN [idle EXCEPT !.view = "volume", !.demFile = r.selectedFile,
                      !.pollingInterval = IF c.view = "upload" THEN FALSE ELSE @,
                      !.polls = UnmountedPolls(Cleared(@)), !.posts = Unmounted(@),
                      !.handled = @ \cup {r.processId},
                      !.twice = IF r.processId \in c.handled
                                THEN @ \cup {r.processId} ELSE @]
    ELSE IF r.status = "error"
    THEN [idle EXCEPT !.uploadMessage =
                          IF r.mounted THEN "Error during processing." ELSE @]
    ELSE c

\* The answers arrive in any order.
PollResumes(i) ==
    /\ i \in DOMAIN client.polls
    /\ client' = PollResumed([client EXCEPT !.polls = Without(@, i)], client.polls[i])
    /\ UNCHANGED serverVars

\* handleBack of App: setProcessingSuccess(false); setProcessId(null);
\* setDemFile(null); VolumeSelection leaves the page and the form mounts
\* again with its initial state.
HandleBack ==
    /\ client.view = "volume"
    /\ client' = [ClientInit EXCEPT
                     !.failed = client.failed, !.after = client.after,
                     !.polls = client.polls, !.posts = client.posts,
                     !.uploaded = client.uploaded, !.handled = client.handled,
                     !.twice = client.twice,
                     !.calc = [client.calc EXCEPT !.mounted = FALSE]]
    /\ UNCHANGED serverVars

----------------------------------------------------------------------------
(* The selection page of the browser client (VolumeSelection.js in App.js). *)

\* The values the cards pass to handleVolumeSelect and
\* handleApproximationSelect.
VolumeCards == {"circular", "elliptical"}
ApproximationCards == {"approximation1", "approximation2"}

\* useState(''): the empty text.
NoResult == [text |-> TRUE, value |-> <<>>]

\* No /calculateVolume request waits for its answer.
NoCalc == [sent |-> FALSE, mounted |-> FALSE, cleared |-> FALSE]

\* response.data.result: the text of res.json({ result: resultData }), or the
\* result member of the parsed object the server passed on.
ResultOf(response) ==
    IF response.kind = "text"
    THEN [text |-> TRUE, value |-> response.body]
    ELSE [text |-> FALSE, value |-> Property(response.body, "\"result\"")]

\* {result && (...)}: the results box is drawn for a truthy result.
Shown(result) ==
    IF result.text THEN result.value # <<>> ELSE TruthyValue(result.value)

\* {volumeType && approximationType && (<Box className="button-group">...)}
ButtonOffered(c) ==
    /\ c.view = "volume"
    /\ c.volumeType # ""
    /\ c.approximationType # ""

\* setResult(''), as handleVolumeSelect and handleBack call it.
ClearResult(c) ==
    [c EXCEPT !.result = NoResult, !.stale = FALSE,
              !.calc = IF @.sent /\ @.mounted THEN [@ EXCEPT !.cleared = TRUE] ELSE @]

\* Variant: choosing a volcano type keeps the approximation chosen before.
HandleVolumeSelectKeeps(type) ==
    /\ client.view = "volume"
    /\ client.volumeType = ""
    /\ client' = [ClearResult(client) EXCEPT
                     !.volumeType = type, !.selectedApproximation = "",
                     !.infoImage = ""]
    /\ UNCHANGED serverVars

\* handleVolumeSelect: the two volcano cards are drawn while volumeType is
\* empty.
HandleVolumeSelect(type) ==
    /\ client.view = "volume"
    /\ client.volumeType = ""
    /\ client' = [ClearResult(client) EXCEPT
                     !.volumeType = type, !.approximationType = "",
                     !.selectedApproximation = "", !.infoImage = ""]
    /\ UNCHANGED serverVars

\* setInfoImage(...) in handleApproximationSelect.
InfoImage(volumeType, type, infoImage) ==
    IF volumeType = "circular"
    THEN IF type = "approximation1" THEN "/images/1_Circ.png" ELSE "/images/2_Circ.png"
    ELSE IF volumeType = "elliptical"
    THEN IF type = "approximation1" THEN "/images/1_Ellipt.png" ELSE "/images/2_Ellipt.png"
    ELSE infoImage

\* handleApproximationSelect: the approximation cards are drawn while
\* volumeType is set.
HandleApproximationSelect(type) ==
    /\ client.view = "volume"
    /\ client.volumeType # ""
    /\ client' = [client EXCEPT
                     !.approximationType = type, !.selectedApproximation = type,
                     !.infoImage = InfoImage(client.volumeType, type, @)]
    /\ UNCHANGED serverVars

\* handleBack of VolumeSelection, on the back arrow drawn while volumeType is
\* set: approximationType is left as it is.
VolumeSelectionHandleBack ==
    /\ client.view = "volume"
    /\ client.volumeType # ""
    /\ client' = [ClearResult(client) EXCEPT
                     !.volumeType = "", !.selectedApproximation = "",
                     !.infoImage = ""]
    /\ UNCHANGED serverVars

\* handleSubmitVolumeCalculation after the await: setResult(response.data.result)
\* on an answer in 2xx, an alert otherwise, and setIsLoading(false) in either
\* case.  The setters act while the component that sent the request is on the
\* page.
CalcResumed(c, response) ==
    LET done == [c EXCEPT !.calc = NoCalc] IN
    IF ~c.calc.mounted THEN done
    ELSE IF response.code = Ok
    THEN [done EXCEPT !.result = ResultOf(response), !.stale = c.calc.cleared,
                      !.isLoading = FALSE]
    ELSE [done EXCEPT !.isLoading = FALSE]

\* handleSubmitVolumeCalculation up to `await axios.post(...)`: demFile,
\* volumeType and approximationType go to /calculateVolume, with no
\* originalFileName and no processId.  The button is disabled while
\* isLoading.  A request the server rejects is answered at once.
HandleSubmitVolumeCalculation ==
    LET sending == [client EXCEPT !.isLoading = TRUE,
                        !.calc = [sent |-> TRUE, mounted |-> TRUE, cleared |-> FALSE]]
    IN
    /\ ButtonOffered(client)
    /\ ~client.isLoading
    /\ ~client.calc.sent
    /\ \E output \in BriefOutputs :
          CalculateVolume(VolumeRequest(client.demFile, client.volumeType,
                                        client.approximationType, NoField, ""),
                          output)
    /\ client' = IF last'.sent = 1 THEN CalcResumed(sending, last') ELSE sending

\* The close callback answers the request and handleSubmitVolumeCalculation
\* goes on.
VolumeReturns(code) ==
    /\ client.calc.sent
    /\ VolumeClose(code)
    /\ client' = CalcResumed(client, last')

----------------------------------------------------------------------------

Init ==
    /\ processingStatus = <<>>
    /\ objectStatus = {}
    /\ children = <<>>
    /\ volume = Idle
    /\ issued = {}
    /\ acked = {}
    /\ last = NoEvent
    /\ inputs = <<>>
    /\ server = "listening"
    /\ drawn = {}
    /\ client = ClientInit

Next ==
    \/ \E file \in Uploads, field \in BriefNames :
            Process(file, field) /\ UNCHANGED client
    \/ \E processId \in Keys : ProcessStatus(processId) /\ UNCHANGED client
    \/ \E processId \in Keys : ProcessComplete(processId)
    \/ \E processId \in UUIDs : ProcessStdout(processId)
    \/ \E processId \in UUIDs : ProcessStderr(processId)
    \/ \E processId \in UUIDs, code \in ExitCodes : ProcessClose(processId, code)
    \/ \E req \in BriefRequests, output \in BriefOutputs :
            CalculateVolume(req, output) /\ UNCHANGED client
    \/ VolumeStdout
    \/ VolumeStderr
    \/ \E code \in ExitCodes : VolumeClose(code) /\ UNCHANGED client
    \/ \E endpoint \in DerivativeEndpoints, file \in Uploads, output \in DerivativeOutputs :
            Derivative(endpoint, file, output)
    \/ DerivativeStdout
    \/ DerivativeStderr
    \/ \E code \in ExitCodes : DerivativeClose(code)

\* The server: every handler and every child event.
Spec == Init /\ [][Next]_vars

NextVolume ==
    \/ \E req \in VolumeRequests, output \in Outputs :
            CalculateVolume(req, output) /\ UNCHANGED client
    \/ VolumeStdout
    \/ VolumeStderr
    \/ \E code \in ExitCodes : VolumeClose(code) /\ UNCHANGED client

\* /calculateVolume alone, over the whole catalogue of child outputs.
SpecVolume == Init /\ [][NextVolume]_vars

NextUploads ==
    \/ \E file \in UploadNames, field \in ProcessNames :
            Process(file, field) /\ UNCHANGED client
    \/ \E processId \in UUIDs, code \in ExitCodes : ProcessClose(processId, code)
    \/ \E req \in BriefRequests, output \in BriefOutputs :
            CalculateVolume(req, output) /\ UNCHANGED client
    \/ VolumeStdout
    \/ \E code \in ExitCodes : VolumeClose(code) /\ UNCHANGED client
    \/ \E endpoint \in DerivativeEndpoints, file \in UploadNames,
          output \in DerivativeOutputs : Derivative(endpoint, file, output)
    \/ DerivativeStdout
    \/ \E code \in ExitCodes : DerivativeClose(code)

\* The requests that upload a file, with clients that choose the file names.
SpecUploads == Init /\ [][NextUploads]_vars

NextFaults ==
    \/ \E file \in Uploads, field \in BriefNames :
            Process(file, field) /\ UNCHANGED client
    \/ \E processId \in Keys : ProcessStatus(processId) /\ UNCHANGED client
    \/ \E processId \in Keys : ProcessComplete(processId)
    \/ \E processId \in UUIDs : ProcessStdout(processId)
    \/ \E processId \in UUIDs : ProcessStderr(processId)
    \/ \E processId \in UUIDs, code \in ExitCodes : ProcessClose(processId, code)
    \/ \E req \in BriefRequests, output \in BriefOutputs :
            CalculateVolume(req, output) /\ UNCHANGED client
    \/ VolumeStdout
    \/ VolumeStderr
    \/ \E code \in ExitCodes : VolumeClose(code) /\ UNCHANGED client
    \/ \E endpoint \in DerivativeEndpoints, file \in Uploads, output \in DerivativeOutputs :
            Derivative(endpoint, file, output)
    \/ DerivativeStdout
    \/ DerivativeStderr
    \/ \E code \in ExitCodes : DerivativeClose(code)
    \/ SpawnError

NextDerivative ==
    \/ \E endpoint \in DerivativeEndpoints, file \in Uploads, output \in DerivativeTexts :
            Derivative(endpoint, file, output)
    \/ DerivativeStdout
    \/ DerivativeStderr
    \/ \E code \in ExitCodes : DerivativeClose(code)

\* The three derivative endpoints alone.
SpecDerivative == Init /\ [][NextDerivative]_vars

\* The server on a host where the interpreter may fail to start.
SpecFaults == Init /\ [][NextFaults]_vars

NextIds ==
    \/ \E file \in Uploads, field \in BriefNames :
            Process(file, field) /\ UNCHANGED client
    \/ \E processId \in UUIDs, code \in ExitCodes : ProcessClose(processId, code)
    \/ \E req \in IdRequests, output \in BriefOutputs :
            CalculateVolume(req, output) /\ UNCHANGED client
    \/ VolumeStdout
    \/ \E code \in ExitCodes : VolumeClose(code) /\ UNCHANGED client

\* /process and /calculateVolume, with requests that carry a processId and
\* requests that leave the id to the server.
SpecIds == Init /\ [][NextIds]_vars

NextChunks ==
    \/ \E req \in BriefRequests, output \in ByteOutputs :
            CalculateVolume(req, output) /\ UNCHANGED client
    \/ VolumeStdout
    \/ VolumeStderr
    \/ \E code \in ExitCodes : VolumeClose(code) /\ UNCHANGED client

\* /calculateVolume with a child that writes text outside ASCII.
SpecChunks == Init /\ [][NextChunks]_vars

NextAsync ==
    \/ \E file \in ClientFiles : HandleFileChange(file)
    \/ \E file \in ClientFiles : HandleDrop(file)
    \/ SubmitPost
    \/ \E r \in client.posts : SubmitResumes(r)
    \/ PollGet
    \/ \E i \in 1..MaxInFlight : PollResumes(i)
    \/ HandleBack
    \/ \E processId \in UUIDs : ProcessComplete(processId)

\* One browser client whose requests take time, with the /process pipeline
\* and its status route.
SpecAsync == Init /\ [][NextAsync]_vars

NextClient ==
    \/ \E file \in ClientFiles : HandleFileChange(file)
    \/ \E file \in ClientFiles : HandleDrop(file)
    \/ HandleSubmit
    \/ PollTick
    \/ HandleBack
    \/ \E processId \in UUIDs : ProcessComplete(processId)
    \/ \E processId \in UUIDs, code \in ExitCodes : ProcessClose(processId, code)

\* One browser client, the /process pipeline and its status route.
SpecClient == Init /\ [][NextClient]_vars

NextSelection ==
    \/ HandleFileChange("a.tif")
    \/ HandleSubmit
    \/ PollTick
    \/ \E processId \in UUIDs : ProcessComplete(processId)
    \/ HandleBack
    \/ \E type \in VolumeCards : HandleVolumeSelect(type)
    \/ \E type \in ApproximationCards : HandleApproximationSelect(type)
    \/ VolumeSelectionHandleBack
    \/ HandleSubmitVolumeCalculation
    \/ VolumeStdout
    \/ \E code \in ExitCodes : VolumeReturns(code)

\* One browser client from the upload to the selection page, with the
\* /process pipeline and /calculateVolume.
SpecSelection == Init /\ [][NextSelection]_vars

----------------------------------------------------------------------------
(* Properties.                                                             *)

\* C1: every POST /process with a file returns a processId that no earlier
\* submission returned and that the registry did not know, and a GET
\* /processStatus on it right after the response answers 200 'processing'.
C1_FreshIdThenProcessing ==
    [][\A id \in Keys :
        (last'.op = "process" /\ last'.code = Ok /\ last'.id = id)
        => /\ id \in UUIDs
           /\ id \notin issued
           /\ ~Truthy(Lookup(id))
           /\ LET after == StatusResponse(id)' IN
              after.code = Ok /\ after.status = "processing"]_vars

\* A second submission has just been answered and its job is polled as processing.
C1_Witness ==
    /\ last.op = "process" /\ last.code = Ok
    /\ Cardinality(issued) >= 2
    /\ StatusResponse(last.id).status = "processing"

\* C2: no registry update is lost under any interleaving of the handlers:
\* every job submitted is in the registry, 'completed' once its completion
\* callback has been acknowledged and 'processing' before, and every poll of
\* a job answers 200 with exactly that status.
C2_NoLostUpdate ==
    /\ \A j \in issued :
        /\ j \in DOMAIN processingStatus
        /\ processingStatus[j].status =
              IF j \in acked THEN "completed" ELSE "processing"
    /\ (last.op = "processStatus" /\ last.id \in issued)
        => /\ last.code = Ok
           /\ last.status = IF last.id \in acked THEN "completed" ELSE "processing"

\* A completed job is polled while another job is still processing.
C2_Witness ==
    /\ last.op = "processStatus" /\ last.id \in issued /\ last.status = "completed"
    /\ \E k \in issued : k \notin acked /\ processingStatus[k].status = "processing"

\* C3: POST /processComplete on a job whose completion was already
\* acknowledged is answered 200 again and leaves the job 'completed' and the
\* registry as it was.
C3_CompleteIdempotent ==
    [][\A id \in UUIDs :
        (id \in issued /\ id \in acked /\ last'.op = "processComplete" /\ last'.id = id)
        => /\ last'.code = Ok
           /\ processingStatus' = processingStatus
           /\ processingStatus'[id].status = "completed"
           /\ objectStatus' = objectStatus]_vars

\* A completion callback has found its job already completed.
C3_Witness ==
    /\ last.op = "processComplete" /\ last.code = Ok
    /\ last.id \in issued /\ last.prev = "completed"

\* C4: GET /processStatus on an id no submission has registered answers
\* 404 'Process ID not found'.
C4_UnknownStatusIs404 ==
    (last.op = "processStatus" /\ last.id \notin issued)
    => (last.code = NotFound /\ last.status = "Process ID not found")

\* C5: POST /processComplete on an id no submission has registered answers
\* 404 and changes nothing: the registry is as before and so is the answer
\* GET /processStatus gives for every other id.
C5_UnknownCompleteIs404 ==
    [][\A id \in Keys :
        (id \notin issued /\ last'.op = "processComplete" /\ last'.id = id)
        => /\ last'.code = NotFound
           /\ processingStatus' = processingStatus
           /\ \A k \in Keys \ {id} : StatusResponse(k)' = StatusResponse(k)]_vars

\* C6: the status of every registered job is 'processing' or 'completed',
\* it is 'processing' as long as no completion callback was acknowledged,
\* whatever the exit code of the pipeline, and no poll of a job reports
\* anything else.
C6_ProcessingOrCompleted ==
    /\ \A j \in DOMAIN processingStatus :
        /\ processingStatus[j].status \in {"processing", "completed"}
        /\ j \notin acked => processingStatus[j].status = "processing"
    /\ (last.op = "processStatus" /\ last.id \in issued)
        => last.status \in {"processing", "completed"}
    /\ (last.op = "processClose" /\ last.exit # 0 /\ last.id \notin acked)
        => StatusResponse(last.id).status = "processing"

\* The pipeline of a job has exited with a non-zero code and the job is processing.
C6_Witness ==
    /\ last.op = "processClose" /\ last.exit # 0
    /\ processingStatus[last.id].status = "processing"

\* C7: an entry of the registry changes only in the POST /processComplete
\* handler for its id, from 'processing' to 'completed'; no entry is removed;
\* the close, stdout and stderr callbacks and every other endpoint leave the
\* registry as it is.
C7_OnlyCallbackCompletes ==
    [][/\ DOMAIN processingStatus \subseteq DOMAIN processingStatus'
       /\ \A j \in DOMAIN processingStatus :
            processingStatus'[j] # processingStatus[j]
            => /\ last'.op = "processComplete" /\ last'.id = j /\ last'.code = Ok
               /\ processingStatus[j].status = "processing"
               /\ processingStatus'[j].status = "completed"
       /\ last'.op \notin {"process", "processComplete"}
            => (processingStatus' = processingStatus /\ objectStatus' = objectStatus)
      ]_vars

\* The pipeline of a job has exited with code 0 and the job is still processing.
C7_Witness ==
    /\ last.op = "processClose" /\ last.exit = 0
    /\ processingStatus[last.id].status = "processing"

\* The table of C8.
C8_Table ==
    [p \in {"circular", "elliptical"} \X {"approximation1", "approximation2"} |->
        CASE p = <<"circular", "approximation1">> -> "CircularVolcano_Approx1.py"
          [] p = <<"circular", "approximation2">> -> "CircularVolcano_Approx2.py"
          [] p = <<"elliptical", "approximation1">> -> "EllipticalVolcano_Approx1.py"
          [] p = <<"elliptical", "approximation2">> -> "EllipticalVolcano_Approx2.py"]

\* C8: in POST /calculateVolume each of the four (volumeType,
\* approximationType) pairs launches its own script, the four scripts are
\* pairwise distinct, and every other pair of non-empty values is answered
\* 400 and launches nothing.
C8_SelectorTable ==
    /\ Cardinality({ScriptPath(p[1], p[2]) : p \in DOMAIN C8_Table}) = 4
    /\ last.op = "calculateVolume"
        => LET pair == <<last.req.volumeType, last.req.approximationType>> IN
           IF pair \in DOMAIN C8_Table
           THEN (last.req.file # NoFile /\ DisplayName(last.req.originalFileName) # <<>>)
                => /\ last.code = 0
                   /\ last.spawn = C8_Table[pair]
                   /\ volume.state = "running"
           ELSE (pair[1] # "" /\ pair[2] # "")
                => (last.code = BadRequest /\ last.spawn = "" /\ volume = Idle)

\* A known volumeType with an unknown approximationType has been answered 400.
C8_Witness ==
    /\ last.op = "calculateVolume" /\ last.req.file # NoFile
    /\ last.req.volumeType = "circular"
    /\ last.req.approximationType = "approximation3"
    /\ last.code = BadRequest /\ volume = Idle

\* C9: when the volume child exits 0 and its captured stdout parses as a
\* JSON object that carries a 'result' or an 'images' field, the response is
\* 200 with that parsed object.
C9_StructuredVerbatim ==
    LET parsed == JSONParse(last.stdout) IN
    (/\ last.op = "volumeClose" /\ last.exit = 0
     /\ parsed.ok
     /\ \/ Property(parsed.value, "\"result\"") # NoValue
        \/ Property(parsed.value, "\"images\"") # NoValue)
    => (last.code = Ok /\ last.kind = "parsed" /\ last.body = parsed.value)

\* C10: when the volume child exits 0 the response is 200, and when its
\* captured stdout does not parse as JSON, or parses to a value without a
\* 'result' and without an 'images' field, the body is {result: <the
\* captured stdout, unchanged>}.
C10_FallbackToText ==
    LET parsed == JSONParse(last.stdout) IN
    (last.op = "volumeClose" /\ last.exit = 0)
    => /\ last.code = Ok
       /\ (\/ ~parsed.ok
           \/ /\ Property(parsed.value, "\"result\"") = NoValue
              /\ Property(parsed.value, "\"images\"") = NoValue)
          => (last.kind = "text" /\ last.body = last.stdout)

\* The child has written JSON without the recognised fields and the raw
\* text has been returned.
C10_Witness ==
    /\ last.op = "volumeClose" /\ last.exit = 0
    /\ JSONParse(last.stdout).ok
    /\ Property(JSONParse(last.stdout).value, "\"result\"") = NoValue
    /\ Property(JSONParse(last.stdout).value, "\"images\"") = NoValue
    /\ last.kind = "text" /\ last.body = last.stdout /\ last.body # <<>>

\* C11: when the volume child exits with a non-zero code the response is 500
\* with the body {error: 'Error calculating volume'} and nothing else: no
\* result payload, whatever the child wrote.
C11_FailureIsFixed500 ==
    (last.op = "volumeClose" /\ last.exit # 0)
    => /\ last.code = ServerError
       /\ last.kind = "error"
       /\ last.status = "Error calculating volume"
       /\ last.body = <<>>

\* The child has written a complete structured result and exited non-zero.
C11_Witness ==
    /\ last.op = "volumeClose" /\ last.exit # 0
    /\ last.stdout = StructuredOutput
    /\ last.code = ServerError /\ last.body = <<>>

\* C12: the run of the POST /process handler that launches the pipeline
\* also sends the response {message, processId}: every new child appears
\* together with the 200 response for its id, while that child, and any
\* child launched before, is still running.
C12_AnswersAtSpawn ==
    [][/\ (last'.op = "process" /\ last'.spawn # "")
            => /\ last'.code = Ok /\ last'.kind = "message"
               /\ last'.id \notin DOMAIN children
               /\ last'.id \in DOMAIN children'
               /\ children'[last'.id] = "running"
       /\ \A j \in DOMAIN children' \ DOMAIN children :
            last'.op = "process" /\ last'.id = j /\ last'.code = Ok
       /\ last'.op = "process" => children' # children \/ last'.code = BadRequest
       /\ last'.op = "process" =>
            \A j \in DOMAIN children : children'[j] = children[j]
      ]_vars

\* A submission has been answered while the pipeline of an earlier job is
\* still running.
C12_Witness ==
    /\ last.op = "process" /\ last.code = Ok
    /\ children[last.id] = "running"
    /\ \E k \in DOMAIN children : k # last.id /\ children[k] = "running"

\* C14: a POST /process without a demFile is answered 400 in the handler
\* run itself; it launches nothing, draws no process id and leaves the
\* registry, the children and the ids still to be drawn as they were.
C14_NoFileIs400 ==
    [][(last'.op = "process" /\ last'.req.file = NoFile)
        => /\ last'.code = BadRequest
           /\ last'.spawn = "" /\ last'.id = ""
           /\ processingStatus' = processingStatus
           /\ children' = children
           /\ inputs' = inputs
           /\ uuidv4' = uuidv4]_vars

\* A submission without a file has been refused while a job is registered.
C14_Witness ==
    /\ last.op = "process" /\ last.req.file = NoFile /\ last.code = BadRequest
    /\ issued # {} /\ DOMAIN processingStatus = issued

\* C16: any two requests whose pipelines are reading their inputs at the
\* same time (two /process jobs, or a job and a /calculateVolume or
\* derivative request) have their uploads stored at different paths.
C16_DistinctInputPaths ==
    /\ \A j, k \in DOMAIN inputs :
        (j # k /\ children[j] = "running" /\ children[k] = "running")
        => inputs[j] # inputs[k]
    /\ \A j \in DOMAIN inputs :
        (children[j] = "running" /\ volume.state = "running")
        => inputs[j] # volume.path

\* C23: a POST /process whose demFile has zero bytes is answered 400,
\* creates no job and launches nothing.
C23_EmptyFileIs400 ==
    (last.op = "process" /\ Size(last.req.file) = 0)
    => /\ last.code = BadRequest
       /\ last.spawn = ""
       /\ last.id \notin DOMAIN processingStatus

\* C29: the launch of /process passes, after the script, exactly the stored
\* input path, the display name and the processId returned to the client,
\* in that order; the display name is 'Unknown' when the originalFileName
\* field is absent or empty, and otherwise the longest beginning of the
\* field that has no '.' in it.
C29_LaunchArguments ==
    (last.op = "process" /\ last.spawn # "")
    => LET field == last.req.originalFileName
           name == last.args[2]
       IN /\ Len(last.args) = 3
          /\ last.args[1] = <<"uploads", last.req.file>>
          /\ last.args[1] = inputs[last.id]
          /\ last.args[3] = last.id
          /\ last.code = Ok /\ last.id \in issued
          /\ IF ~field.present \/ field.text = <<>>
             THEN name = <<"Unknown">>
             ELSE /\ Len(name) <= Len(field.text)
                  /\ name = SubSeq(field.text, 1, Len(name))
                  /\ \A i \in 1..Len(name) : name[i] # "."
                  /\ Len(name) < Len(field.text) => field.text[Len(name) + 1] = "."

\* A job has been launched under the name 'a' for the upload field 'a.b.t'.
C29_Witness ==
    /\ last.op = "process" /\ last.spawn # ""
    /\ last.req.originalFileName = Field(<<"a", ".", "b", ".", "t">>)
    /\ last.args = <<AbsFilePath("a.tif"), <<"a">>, last.id>>

\* C17: a submit or a completion callback under id J leaves the entry of
\* every other registered job K, and the answer GET /processStatus/K
\* gives, as they were.
C17_JobsIsolated ==
    [][last'.op \in {"process", "processComplete"} =>
        \A K \in DOMAIN processingStatus \ {last'.id} :
           /\ K \in DOMAIN processingStatus'
           /\ processingStatus'[K] = processingStatus[K]
           /\ StatusResponse(K)' = StatusResponse(K)]_vars

\* A job has been completed by its callback while another job is processing.
C17_Witness ==
    /\ last.op = "processComplete" /\ last.code = Ok
    /\ last.id \in issued /\ last.prev = "processing"
    /\ \E K \in issued : K # last.id /\ processingStatus[K].status = "processing"

\* C18: whatever happens to an external process, the server stays in
\* service and the registry holds every job that was registered.
C18_StaysInService ==
    /\ server = "listening"
    /\ \A j \in issued : j \in DOMAIN processingStatus

\* C19: every launch carries PYTHONUNBUFFERED=1 in the child's environment,
\* and the launches of /process and /calculateVolume also carry PROCESS_ID
\* equal to the process id the request works under, whatever the server's
\* own environment holds under those names.
C19_LaunchEnvironment ==
    last.spawn # ""
    => /\ "PYTHONUNBUFFERED" \in DOMAIN last.env
       /\ last.env["PYTHONUNBUFFERED"] = "1"
       /\ last.op \in {"process", "calculateVolume"}
            => /\ "PROCESS_ID" \in DOMAIN last.env
               /\ last.env["PROCESS_ID"] = last.id
               /\ last.id # ""

\* A volume request that reuses the id of a job has launched its script.
C19_Witness ==
    /\ last.op = "calculateVolume" /\ last.spawn # ""
    /\ last.req.processId \in issued
    /\ last.env["PROCESS_ID"] = last.req.processId
    /\ last.env["PYTHONUNBUFFERED"] = "1"

\* The steps that belong to a /calculateVolume request and its child.
C13_VolumeOps == {"calculateVolume", "volumeStdout", "volumeStderr", "volumeClose"}

\* C13: an accepted POST /calculateVolume gets no response from the handler
\* itself nor from the stdout and stderr callbacks; as long as the close
\* event has not occurred the request stays open, and the close event
\* answers it.
C13_ResponseAtCloseOnly ==
    [][/\ (last'.op = "calculateVolume" /\ last'.spawn # "")
            => (last'.code = 0 /\ volume'.state = "running")
       /\ (volume.state = "running" /\ volume.endpoint = "calculateVolume")
            => IF last'.op = "volumeClose"
               THEN last'.code # 0 /\ volume' = Idle
               ELSE /\ volume'.state = "running"
                    /\ last'.op \in C13_VolumeOps => last'.code = 0
      ]_vars

\* The child has written its whole output, and more on stderr, and has not
\* exited: the request is still open.
C13_Witness ==
    /\ volume.state = "running" /\ volume.endpoint = "calculateVolume"
    /\ volume.pending = <<>> /\ volume.resultData = StructuredOutput
    /\ last.op = "volumeStderr" /\ last.code = 0

\* C15: POST /calculateVolume answers 400 and launches nothing when demFile,
\* volumeType, approximationType or originalFileName is missing from the
\* request.
C15_MissingFieldIs400 ==
    (/\ last.op = "calculateVolume"
     /\ \/ last.req.file = NoFile
        \/ last.req.volumeType = ""
        \/ last.req.approximationType = ""
        \/ ~last.req.originalFileName.present)
    => (last.code = BadRequest /\ last.spawn = "" /\ volume = Idle)

C21_LoggedNotFailed ==
    (last.op = "derivativeClose" /\ last.exit # 0)
    => /\ \E e \in DerivativeEndpoints : last.logged = DerivativeLogLine(e)
       /\ last.code = Ok

\* C21, as the handlers have it: a non-zero exit of the child is written to
\* the error log and the request fails as well, with 500 and the error
\* message of the endpoint whose line was logged.
C21_LoggedAndFailed ==
    (last.op = "derivativeClose" /\ last.exit # 0)
    => \E e \in DerivativeEndpoints :
        /\ last.logged = DerivativeLogLine(e)
        /\ last.code = ServerError /\ last.kind = "error"
        /\ last.status = DerivativeError(e)

\* /calculateSlopes has failed: its line is in the log and its answer is 500.
C21_Witness ==
    /\ last.op = "derivativeClose" /\ last.exit # 0
    /\ last.logged = DerivativeLogLine("calculateSlopes")
    /\ last.code = ServerError /\ last.status = DerivativeError("calculateSlopes")

\* C30: every request receives at most one response: /process,
\* /processStatus and /processComplete answer once in their handler run; a
\* /calculateVolume or derivative request is either refused in its handler
\* run, and then nothing is launched, or left open without a response until
\* the close event, which answers it once and closes it; the data callbacks
\* answer nothing.
C30_AtMostOneResponse ==
    [][/\ last'.sent \in {0, 1}
       /\ last'.op \in {"process", "processStatus", "processComplete"}
            => last'.sent = 1
       /\ last'.op \in Launches \ {"process"}
            => IF volume'.state = "running"
               THEN last'.sent = 0 /\ volume'.sent = 0 /\ last'.spawn # ""
               ELSE last'.sent = 1 /\ last'.spawn = "" /\ volume' = Idle
       /\ last'.op \in {"volumeStdout", "volumeStderr", "derivativeStdout",
                         "derivativeStderr"}
            => last'.sent = 0 /\ volume'.sent = volume.sent
       /\ last'.op \in {"volumeClose", "derivativeClose"}
            => volume.sent + last'.sent = 1 /\ volume' = Idle
      ]_vars

\* A volume request has been answered once, at the close event, with the
\* parsed output of its child.
C30_Witness ==
    /\ last.op = "volumeClose" /\ last.exit = 0 /\ last.kind = "parsed"
    /\ last.sent = 1 /\ volume = Idle

\* C24: /calculateVolume works under the processId of the request when the
\* request carries one, and under an id newly drawn from uuidv4() otherwise;
\* either way the id is taken as it is, whether or not the registry holds it,
\* and a launched child receives it as PROCESS_ID.
C24_SuppliedOrFreshId ==
    [][last'.op = "calculateVolume"
       => /\ IF last'.req.processId # ""
             THEN last'.id = last'.req.processId /\ drawn' = drawn
             ELSE /\ last'.id \in UUIDs \ (drawn \cup issued)
                  /\ drawn' = drawn \cup {last'.id}
          /\ last'.spawn # "" => last'.env["PROCESS_ID"] = last'.id
          /\ (last'.spawn # "")
                <=> /\ last'.req.file # NoFile
                    /\ DisplayName(last'.req.originalFileName) # <<>>
                    /\ ~InvalidSelector(last'.req.volumeType,
                                        last'.req.approximationType)
          /\ processingStatus' = processingStatus
      ]_vars

\* A volume request has launched its script under a supplied id that no job
\* was ever registered under.
C24_Witness ==
    /\ last.op = "calculateVolume" /\ last.spawn # ""
    /\ last.req.processId = "uuid-1"
    /\ "uuid-1" \notin DOMAIN processingStatus
    /\ last.env["PROCESS_ID"] = "uuid-1"

\* C25: as long as the server runs, a completion callback on an id the
\* registry holds is answered 200 and leaves that job 'completed', whether the
\* job's child is still running or has exited, whatever the job's status was,
\* and with nothing of the caller taken into account.
C25_CallbackUnconditional ==
    [][/\ last'.op = "processComplete"
       /\ last'.id \in DOMAIN processingStatus
       => /\ last'.code = Ok /\ last'.sent = 1
          /\ last'.id \in DOMAIN processingStatus'
          /\ processingStatus'[last'.id].status = "completed"
          /\ last'.id \in acked'
          /\ children' = children
      ]_vars

\* The callback of a job still 'processing' was acknowledged after the job's
\* child had already exited.
C25_Witness ==
    /\ last.op = "processComplete" /\ last.code = Ok
    /\ last.prev = "processing"
    /\ last.id \in DOMAIN children /\ children[last.id] = "closed"
    /\ processingStatus[last.id].status = "completed"

\* C26: while the server runs, no handler and no child event removes an id
\* from the registry, and a job that is 'completed' stays 'completed'.
C26_RegistryMonotonic ==
    [][server' = "listening"
       => \A id \in DOMAIN processingStatus :
          /\ id \in DOMAIN processingStatus'
          /\ processingStatus[id].status = "completed"
                => processingStatus'[id].status = "completed"
          /\ processingStatus'[id].status \in {"processing", "completed"}
      ]_vars

\* A job's child has exited with a failure after the job was marked
\* completed, and the job is still registered as completed.
C26_Witness ==
    /\ last.op = "processClose" /\ last.exit # 0
    /\ last.id \in acked
    /\ last.id \in DOMAIN processingStatus
    /\ processingStatus[last.id].status = "completed"

\* C27: every job whose pipeline /process has spawned is in the registry from
\* the step that spawned it, entered as 'processing', so the completion
\* callback for the id of a spawned pipeline is answered 200, never 404,
\* however soon after the launch it arrives.
C27_RegisteredBeforeCallback ==
    [][/\ last'.op = "process" /\ last'.spawn # ""
            => /\ last'.id \in DOMAIN children'
               /\ last'.id \in DOMAIN processingStatus'
               /\ processingStatus'[last'.id].status = "processing"
       /\ server' = "listening"
            => DOMAIN children' \subseteq DOMAIN processingStatus'
       /\ last'.op = "processComplete" /\ last'.id \in DOMAIN children
            => last'.code = Ok /\ last'.code # NotFound
      ]_vars

\* The callback for the only job arrived while the job's child was still
\* running, and was acknowledged.
C27_Witness ==
    /\ last.op = "processComplete" /\ last.code = Ok
    /\ last.prev = "processing"
    /\ issued = {last.id} /\ acked = {last.id}
    /\ last.id \in DOMAIN children /\ children[last.id] = "running"

\* The steps of the volume and derivative endpoints and of their children.
C28_Ops ==
    (Launches \ {"process"}) \cup
    {"volumeStdout", "volumeStderr", "volumeClose",
     "derivativeStdout", "derivativeStderr", "derivativeClose"}

\* C28: no step of /calculateVolume, of a derivative endpoint or of their
\* children changes the registry: no entry is created or removed and every
\* job keeps its status, whatever the request carries (a processId equal to
\* a registered job's id included) and whatever the answer is.
C28_RegistryUntouched ==
    [][last'.op \in C28_Ops
       => /\ processingStatus' = processingStatus
          /\ objectStatus' = objectStatus
          /\ children' = children
          /\ issued' = issued /\ acked' = acked
      ]_vars

\* A volume request that carries the id of a registered job has launched its
\* script, and the job is still 'processing'.
C28_Witness ==
    /\ last.op = "calculateVolume" /\ last.spawn # ""
    /\ last.id \in DOMAIN processingStatus
    /\ last.id = last.req.processId
    /\ processingStatus[last.id].status = "processing"
    /\ last.id \notin acked

\* C22: once a status request for a processId has failed, the form sends no
\* further status request for that processId and runs no interval for it.
C22_GivesUpForGood ==
    \A id \in client.failed :
        /\ id \notin client.after
        /\ ~(client.pollingInterval /\ client.processId = id)

\* C31: the response of /calculateVolume is the one that the child's exit
\* code and the whole of its stdout give: it is the same as if the handler
\* had received that stdout in a single chunk, whatever the child wrote to
\* stderr and wherever the chunks were cut.
C31_ChunkingIrrelevant ==
    [][last'.op = "volumeClose"
       => last' = VolumeResponse(last'.exit, toString(volume.written))
      ]_vars

\* C32: the form handles the answer 'completed' at most once for one
\* processId, and after it has handled it no status request for that
\* processId is running or waiting to be handled.
C32_SuccessOnce ==
    /\ client.twice = {}
    /\ \A id \in client.handled :
          ~(client.pollingInterval /\ client.processId = id)

\* C33: at no time are the answers of two POST /process requests of the form
\* outstanding: the form sends no upload while an earlier one is unanswered.
C33_OneSubmissionOutstanding ==
    Cardinality(client.posts) <= 1

\* C34: whenever App shows the volume step, the demFile it hands over is the
\* file that was uploaded in the POST /process of the processId whose
\* 'completed' answer opened that step.
C34_DemFileIsUploaded ==
    client.view = "volume"
    => /\ client.processId \in DOMAIN client.uploaded
       /\ client.demFile = client.uploaded[client.processId]

\* C35: on the selection page, whenever volumeType is set approximationType
\* equals selectedApproximation, and every /calculateVolume request the page
\* sends leaves a state where the button is offered (volumeType and
\* approximationType both set), carries these two values, one of the four
\* pairs that have a script, and is not answered 'Invalid volumeType or
\* approximationType'.
C35_ValidVariants ==
    [][/\ client'.volumeType # "" =>
              client'.approximationType = client'.selectedApproximation
       /\ last' # last /\ last'.op = "calculateVolume" =>
              /\ ButtonOffered(client)
              /\ last'.req.volumeType = client.volumeType
              /\ last'.req.approximationType = client.approximationType
              /\ last'.req.volumeType \in VolumeCards
              /\ last'.req.approximationType \in ApproximationCards
              /\ last'.status # "Invalid volumeType or approximationType"
              /\ last'.spawn \in {"CircularVolcano_Approx1.py",
                                  "CircularVolcano_Approx2.py",
                                  "EllipticalVolcano_Approx1.py",
                                  "EllipticalVolcano_Approx2.py"}]_vars

\* The page has sent a request for the second elliptical approximation and
\* waits for its answer.
C35_Witness ==
    /\ last.op = "calculateVolume"
    /\ last.spawn = "EllipticalVolcano_Approx2.py"
    /\ client.isLoading
    /\ client.calc.sent
    /\ client.volumeType = "elliptical"
    /\ client.approximationType = "approximation2"

\* C36: the result on display is never the answer to a /calculateVolume
\* request that was sent before handleVolumeSelect or handleBack last cleared
\* the result.
C36_NoStaleResult == ~(Shown(client.result) /\ client.stale)

====
